---- MODULE Spec2Model ----
(***************************************************************************)
(* Model of axbench/scripts/make_concept_subset.py: a batch tool that      *)
(* copies a subset of a concept dataset, filtering three known files by a  *)
(* keep-set of concept ids and mirroring every other file verbatim.        *)
(***************************************************************************)
EXTENDS Integers, Sequences, FiniteSets, TLC

(* ------------------------------------------------------------------ *)
(* Bounds of the model                                                  *)
(* ------------------------------------------------------------------ *)
MaxLines == 3
MaxRows == 3
MaxSubdirs == 2
MaxRuns == 2

(* The id of unlabeled/negative examples, and the default of a missing     *)
(* concept_id field: record.get("concept_id", -1), df["concept_id"] == -1.  *)
Sentinel == -1

(* ------------------------------------------------------------------ *)
(* Values: JSON lines, table rows, file contents                        *)
(* ------------------------------------------------------------------ *)

(* The value of a record's concept_id field: an integer, a decimal string,  *)
(* JSON null, or no field at all.                                           *)
IntCid(n) == [k |-> "int", v |-> n]
StrCid(n) == [k |-> "str", v |-> n]
NullCid == [k |-> "null", v |-> 0]
MissingCid == [k |-> "missing", v |-> 0]

(* One line of a .jsonl file.  t: "blank" (empty or whitespace only),       *)
(* "garbage" (not JSON), "array" (JSON, but not an object) or "obj".        *)
(* fmt is the line's spelling: "canon" is what json.dumps produces.         *)
ObjLine(cid, extra, fmt) == [t |-> "obj", cid |-> cid, extra |-> extra, fmt |-> fmt]
BlankLine == [t |-> "blank", cid |-> MissingCid, extra |-> 0, fmt |-> "canon"]
GarbageLine == [t |-> "garbage", cid |-> MissingCid, extra |-> 0, fmt |-> "canon"]
ArrayLine == [t |-> "array", cid |-> MissingCid, extra |-> 0, fmt |-> "canon"]

(* A parsed record: the fields and values of a line, without its spelling.  *)
Record(cid, extra) == [cid |-> cid, extra |-> extra]

(* json.loads(line) on an object line *)
Loads(line) == Record(line.cid, line.extra)

(* json.dumps(record) + "\n" *)
Dumps(record) == ObjLine(record.cid, record.extra, "canon")

(* A table row: the concept_id column and the other columns. *)
Row(cid, val) == [concept_id |-> cid, val |-> val]

(* File contents.  kind: "jsonl" (lines), "parquet" (rows; hasCol tells     *)
(* whether the table has a concept_id column) or "bytes" (opaque).          *)
Jsonl(lines) == [kind |-> "jsonl", lines |-> lines, rows |-> <<>>, hasCol |-> FALSE, bytes |-> ""]
Parquet(rows) == [kind |-> "parquet", lines |-> <<>>, rows |-> rows, hasCol |-> TRUE, bytes |-> ""]
ParquetNoColumn == [kind |-> "parquet", lines |-> <<>>, rows |-> <<>>, hasCol |-> FALSE, bytes |-> ""]
Bytes(b) == [kind |-> "bytes", lines |-> <<>>, rows |-> <<>>, hasCol |-> FALSE, bytes |-> b]
NoData == Bytes("")

(* ------------------------------------------------------------------ *)
(* The directory trees                                                  *)
(* ------------------------------------------------------------------ *)
MetadataName == "metadata.jsonl"
TrainName == "train_data.parquet"
LatentName == "latent_eval_data.parquet"
NotesName == "notes.txt"
EntryNames == {MetadataName, TrainName, LatentName, NotesName}

(* A directory entry: absent, a regular file with data, or a directory. *)
AbsentEntry == [type |-> "absent", data |-> NoData]
FileEntry(data) == [type |-> "file", data |-> data]
DirEntry == [type |-> "dir", data |-> NoData]

(* A sub-location (generate, inference): whether the directory exists, and  *)
(* its entries.                                                             *)
NoEntries == [n \in EntryNames |-> AbsentEntry]
AbsentLoc == [exists |-> FALSE, entries |-> NoEntries]
Loc(entries) == [exists |-> TRUE, entries |-> entries]

(* A subdirectory of a root. *)
Subdir(g, i) == [exists |-> TRUE, generate |-> g, inference |-> i]
AbsentSubdir == [exists |-> FALSE, generate |-> AbsentLoc, inference |-> AbsentLoc]

SubdirNames == {"a", "b", "c"}
LocNames == {"generate", "inference"}

(* ------------------------------------------------------------------ *)
(* _write_filtered_metadata                                             *)
(* ------------------------------------------------------------------ *)

(* int(x) succeeds on an integer and on a decimal string; int(None) raises. *)
CanInt(cid) == cid.k \in {"int", "str", "missing"}

(* Variant: a missing field read as 0, record.get("concept_id", 0) *)
ConceptIdDefaultZero(record) ==
    IF record.cid.k = "missing" THEN 0 ELSE record.cid.v

(* int(record.get("concept_id", -1)) *)
ConceptIdOf(record) ==
    IF record.cid.k = "missing" THEN Sentinel ELSE record.cid.v

(* Variant: "a" mode, the destination keeps what it held. *)
OpenForAppend(old) == old

(* "w" mode: the destination starts empty whatever it held. *)
OpenForWrite(old) == <<>>

(* Variant: a line that does not decode is skipped (try/except: continue) *)
RECURSIVE FilterLinesSkipBad(_, _, _, _)
FilterLinesSkipBad(lines, i, keep_ids, out) ==
    IF i > Len(lines) THEN [ok |-> TRUE, err |-> "", out |-> out]
    ELSE LET line == lines[i] IN
         IF line.t # "obj" \/ ~CanInt(line.cid)
         THEN FilterLinesSkipBad(lines, i + 1, keep_ids, out)
         ELSE IF ConceptIdOf(Loads(line)) \in keep_ids
              THEN FilterLinesSkipBad(lines, i + 1, keep_ids, Append(out, Dumps(Loads(line))))
              ELSE FilterLinesSkipBad(lines, i + 1, keep_ids, out)

(* The loop over the lines of fin.  Returns the lines written to fout and   *)
(* whether the loop ran to the end; an exception leaves what was written    *)
(* before it (the with-block closes and flushes fout).                      *)
RECURSIVE FilterLines(_, _, _, _)
FilterLines(lines, i, keep_ids, out) ==
    IF i > Len(lines) THEN [ok |-> TRUE, err |-> "", out |-> out]
    ELSE LET line == lines[i] IN
         IF line.t = "blank" THEN FilterLines(lines, i + 1, keep_ids, out)
         ELSE IF line.t = "garbage" THEN [ok |-> FALSE, err |-> "JSONDecodeError", out |-> out]
         ELSE IF line.t = "array" THEN [ok |-> FALSE, err |-> "AttributeError", out |-> out]
         ELSE LET record == Loads(line) IN
              IF ~CanInt(record.cid) THEN [ok |-> FALSE, err |-> "TypeError", out |-> out]
              ELSE IF ConceptIdOf(record) \in keep_ids
                   THEN FilterLines(lines, i + 1, keep_ids, Append(out, Dumps(record)))
                   ELSE FilterLines(lines, i + 1, keep_ids, out)

(* The file written by _write_filtered_metadata over a destination that     *)
(* held the lines old. *)
WriteFilteredMetadata(lines, old, keep_ids) ==
    LET r == FilterLines(lines, 1, keep_ids, OpenForWrite(old))
    IN  [ok |-> r.ok, err |-> r.err, data |-> Jsonl(r.out)]

(* ------------------------------------------------------------------ *)
(* _filter_parquet                                                      *)
(* ------------------------------------------------------------------ *)

(* mask = isin(keep_ids), or-ed with (== -1) when keep_negative and any -1  *)
Mask(rows, keep_ids, keep_negative) ==
    LET isin == [j \in 1..Len(rows) |-> rows[j].concept_id \in keep_ids]
        neg == [j \in 1..Len(rows) |-> rows[j].concept_id = Sentinel]
    IN  IF keep_negative /\ (\E j \in 1..Len(rows) : neg[j])
        THEN [j \in 1..Len(rows) |-> isin[j] \/ neg[j]]
        ELSE isin

(* df.loc[mask]: the rows whose mask is set, in the table's order *)
RECURSIVE LocMask(_, _, _)
LocMask(rows, mask, j) ==
    IF j > Len(rows) THEN <<>>
    ELSE IF mask[j] THEN <<rows[j]>> \o LocMask(rows, mask, j + 1)
    ELSE LocMask(rows, mask, j + 1)

FilterParquet(table, keep_ids, keep_negative) ==
    IF ~table.hasCol THEN [ok |-> FALSE, err |-> "KeyError", data |-> NoData]
    ELSE [ok |-> TRUE, err |-> "",
          data |-> Parquet(LocMask(table.rows, Mask(table.rows, keep_ids, keep_negative), 1))]

(* ------------------------------------------------------------------ *)
(* _mirror_misc_files                                                   *)
(* ------------------------------------------------------------------ *)

(* Variant: break instead of continue, in the worst iteration order: a      *)
(* handled name in the directory ends the loop before anything is copied.  *)
ToMirrorStopAtHandled(src_dir, handled) ==
    IF \E n \in handled : src_dir.entries[n].type # "absent" THEN {}
    ELSE {n \in EntryNames : src_dir.entries[n].type = "file"}

(* Variant: every known filename is skipped in every sub-location *)
ToMirrorSkipKnown(src_dir, handled) ==
    {n \in EntryNames \ {MetadataName, TrainName, LatentName} :
        src_dir.entries[n].type = "file"}

(* The entries of src_dir that the loop copies: not handled, regular files *)
ToMirror(src_dir, handled) ==
    {n \in EntryNames : n \notin handled /\ src_dir.entries[n].type = "file"}

(* Variant: dst_dir.mkdir before the loop instead of inside it *)
MirrorEagerMkdir(src_dir, dst_dir, handled) ==
    Loc([n \in EntryNames |->
            IF n \in ToMirror(src_dir, handled)
            THEN FileEntry(src_dir.entries[n].data)
            ELSE dst_dir.entries[n]])

(* The destination directory after the loop: created by the first copy,    *)
(* each copied file overwriting the entry of the same name.                *)
MirrorMiscFiles(src_dir, dst_dir, handled) ==
    IF ToMirror(src_dir, handled) = {} THEN dst_dir
    ELSE Loc([n \in EntryNames |->
                 IF n \in ToMirror(src_dir, handled)
                 THEN FileEntry(src_dir.entries[n].data)
                 ELSE dst_dir.entries[n]])

(* ------------------------------------------------------------------ *)
(* State                                                                *)
(* ------------------------------------------------------------------ *)
VARIABLES
    subdirs,        \* args.subdirs
    keep_ids,       \* set(args.concept_ids)
    keep_negative,  \* not args.drop_negative
    src,            \* the tree under args.source_root, by subdirectory name
    dst,            \* the tree under args.target_root, by subdirectory name
    pc,             \* where the process is
    idx,            \* the position of the for loop in args.subdirs
    handled,        \* the handled set of the sub-location being processed
    err,            \* the exception that ended the run, "" when none
    log,            \* the writes and prints of this run, in order
    run,            \* which invocation of the tool this is
    firstDst        \* the destination tree as the first invocation left it

vars == <<subdirs, keep_ids, keep_negative, src, dst, pc, idx, handled, err, log, run, firstDst>>

(* mkdir(parents=True, exist_ok=True) of target_root/name/loc *)
Mkdir(tree, name, loc) ==
    [tree EXCEPT ![name].exists = TRUE, ![name][loc].exists = TRUE]

(* target_root/name/loc/fname holds data afterwards *)
PutFile(tree, name, loc, fname, data) ==
    [tree EXCEPT ![name][loc].entries[fname] = FileEntry(data)]

(* path.exists() of an entry of a sub-location *)
EntryExists(location, fname) ==
    location.exists /\ location.entries[fname].type # "absent"

(* The lines a destination file holds before it is opened *)
OldLines(tree, name, loc, fname) ==
    IF tree[name][loc].entries[fname].type = "file"
    THEN tree[name][loc].entries[fname].data.lines
    ELSE <<>>

WriteEvent(i, name, loc, files) ==
    [ev |-> "write", idx |-> i, sub |-> name, loc |-> loc, files |-> files]
PrintEvent(i, name) ==
    [ev |-> "print", idx |-> i, sub |-> name, loc |-> "", files |-> {}]

EmptyTree == [n \in SubdirNames |-> AbsentSubdir]

(* Variant: the existence check left out *)
SourceAssumedToExist(src_base) == TRUE

(* src_base.exists() *)
SourceExists(src_base) == src_base.exists

(* Where subset_single_directory goes after the generate block *)
AfterGenerate(src_base) ==
    IF src_base.inference.exists THEN "inf_latent" ELSE "report"

(* ------------------------------------------------------------------ *)
(* Actions                                                              *)
(* ------------------------------------------------------------------ *)

(* main, up to the for loop *)
Main ==
    /\ pc = "main"
    /\ pc' = "loop"
    /\ idx' = 1
    /\ UNCHANGED <<subdirs, keep_ids, keep_negative, src, dst, handled, err, log, run, firstDst>>

(* The head of the for loop: the next subdir, the check that its source    *)
(* exists, and the entry into subset_single_directory.                     *)
LoopHead ==
    /\ pc = "loop"
    /\ IF idx > Len(subdirs)
       THEN /\ pc' = "done"
            /\ UNCHANGED <<err, handled>>
       ELSE IF ~SourceExists(src[subdirs[idx]])
       THEN /\ pc' = "failed"
            /\ err' = "FileNotFoundError"
            /\ UNCHANGED handled
       ELSE /\ pc' = IF src[subdirs[idx]].generate.exists
                     THEN "gen_meta"
                     ELSE AfterGenerate(src[subdirs[idx]])
            /\ handled' = {}
            /\ UNCHANGED err
    /\ UNCHANGED <<subdirs, keep_ids, keep_negative, src, dst, idx, log, run, firstDst>>

(* generate/metadata.jsonl through _write_filtered_metadata *)
GenerateMetadata ==
    /\ pc = "gen_meta"
    /\ LET name == subdirs[idx]
           generate_src == src[name].generate
       IN  IF ~EntryExists(generate_src, MetadataName)
           THEN /\ pc' = "gen_train"
                /\ UNCHANGED <<dst, handled, err, log>>
           ELSE IF generate_src.entries[MetadataName].type = "dir"
           THEN /\ dst' = Mkdir(dst, name, "generate")
                /\ pc' = "failed"
                /\ err' = "IsADirectoryError"
                /\ UNCHANGED <<handled, log>>
           ELSE LET r == WriteFilteredMetadata(
                             generate_src.entries[MetadataName].data.lines,
                             OldLines(dst, name, "generate", MetadataName),
                             keep_ids)
                IN  /\ dst' = PutFile(Mkdir(dst, name, "generate"), name, "generate",
                                      MetadataName, r.data)
                    /\ log' = Append(log, WriteEvent(idx, name, "generate", {MetadataName}))
                    /\ IF r.ok
                       THEN /\ pc' = "gen_train"
                            /\ handled' = handled \cup {MetadataName}
                            /\ UNCHANGED err
                       ELSE /\ pc' = "failed"
                            /\ err' = r.err
                            /\ UNCHANGED handled
    /\ UNCHANGED <<subdirs, keep_ids, keep_negative, src, idx, run, firstDst>>

(* One call of _filter_parquet from subset_single_directory: the file      *)
(* fname of sub-location loc, then on to pc value next.                    *)
FilterParquetStep(loc, fname, negative, next) ==
    LET name == subdirs[idx]
        src_dir == src[name][loc]
    IN  IF ~EntryExists(src_dir, fname)
        THEN /\ pc' = next
             /\ UNCHANGED <<dst, handled, err, log>>
        ELSE IF src_dir.entries[fname].type = "dir"
        THEN /\ dst' = Mkdir(dst, name, loc)
             /\ pc' = "failed"
             /\ err' = "ReadError"
             /\ UNCHANGED <<handled, log>>
        ELSE LET r == FilterParquet(src_dir.entries[fname].data, keep_ids, negative)
             IN  IF r.ok
                 THEN /\ dst' = PutFile(Mkdir(dst, name, loc), name, loc, fname, r.data)
                      /\ log' = Append(log, WriteEvent(idx, name, loc, {fname}))
                      /\ pc' = next
                      /\ handled' = handled \cup {fname}
                      /\ UNCHANGED err
                 ELSE /\ dst' = Mkdir(dst, name, loc)
                      /\ pc' = "failed"
                      /\ err' = r.err
                      /\ UNCHANGED <<handled, log>>

(* generate/train_data.parquet, with the caller's keep_negative *)
GenerateTrain ==
    /\ pc = "gen_train"
    /\ FilterParquetStep("generate", TrainName, keep_negative, "gen_mirror")
    /\ UNCHANGED <<subdirs, keep_ids, keep_negative, src, idx, run, firstDst>>

(* One call of _mirror_misc_files from subset_single_directory *)
MirrorStep(loc, next) ==
    LET name == subdirs[idx]
        copied == ToMirror(src[name][loc], handled)
        dst_dir == MirrorMiscFiles(src[name][loc], dst[name][loc], handled)
    IN  /\ dst' = [dst EXCEPT ![name].exists = @ \/ dst_dir.exists, ![name][loc] = dst_dir]
        /\ log' = IF copied = {} THEN log
                  ELSE Append(log, WriteEvent(idx, name, loc, copied))
        /\ pc' = next
        /\ handled' = {}

(* The rest of generate *)
GenerateMirror ==
    /\ pc = "gen_mirror"
    /\ MirrorStep("generate", AfterGenerate(src[subdirs[idx]]))
    /\ UNCHANGED <<subdirs, keep_ids, keep_negative, src, idx, err, run, firstDst>>

(* inference/latent_eval_data.parquet, with keep_negative=False *)
InferenceLatent ==
    /\ pc = "inf_latent"
    /\ FilterParquetStep("inference", LatentName, FALSE, "inf_mirror")
    /\ UNCHANGED <<subdirs, keep_ids, keep_negative, src, idx, run, firstDst>>

(* The rest of inference *)
InferenceMirror ==
    /\ pc = "inf_mirror"
    /\ MirrorStep("inference", "report")
    /\ UNCHANGED <<subdirs, keep_ids, keep_negative, src, idx, err, run, firstDst>>

(* Variant: the print dedented out of the for loop, so that only the last  *)
(* subdir is reported.                                                     *)
ReportAfterLoop ==
    /\ pc = "report"
    /\ log' = IF idx = Len(subdirs) THEN Append(log, PrintEvent(idx, subdirs[idx])) ELSE log
    /\ idx' = idx + 1
    /\ pc' = "loop"
    /\ UNCHANGED <<subdirs, keep_ids, keep_negative, src, dst, handled, err, run, firstDst>>

(* print(f"Wrote subset for {subdir} -> {dst_base}"), and the next subdir *)
Report ==
    /\ pc = "report"
    /\ log' = Append(log, PrintEvent(idx, subdirs[idx]))
    /\ idx' = idx + 1
    /\ pc' = "loop"
    /\ UNCHANGED <<subdirs, keep_ids, keep_negative, src, dst, handled, err, run, firstDst>>

(* The user runs the tool again with the same arguments: the source is     *)
(* unchanged and the destination is what the run before left.              *)
Rerun ==
    /\ pc \in {"done", "failed"}
    /\ run < MaxRuns
    /\ run' = run + 1
    /\ firstDst' = IF run = 1 THEN dst ELSE firstDst
    /\ pc' = "main"
    /\ idx' = 0
    /\ handled' = {}
    /\ err' = ""
    /\ log' = <<>>
    /\ UNCHANGED <<subdirs, keep_ids, keep_negative, src, dst>>

Next ==
    \/ Main
    \/ LoopHead
    \/ GenerateMetadata
    \/ GenerateTrain
    \/ GenerateMirror
    \/ InferenceLatent
    \/ InferenceMirror
    \/ Report
    \/ Rerun

(* ------------------------------------------------------------------ *)
(* Initial states: the arguments and the source tree of a scenario      *)
(* ------------------------------------------------------------------ *)
SeqsUpTo(S, n) == UNION {[1..k -> S] : k \in 0..n}

(* A well-formed record file and one with a line that is not JSON *)
GoodLines ==
    <<ObjLine(IntCid(0), 1, "spaced"), BlankLine, ObjLine(IntCid(Sentinel), 2, "canon"),
      ObjLine(IntCid(1), 3, "canon"), ObjLine(MissingCid, 4, "canon")>>
BadLines ==
    <<ObjLine(IntCid(0), 1, "canon"), GarbageLine, ObjLine(IntCid(0), 2, "canon")>>
SomeRows ==
    <<Row(0, 1), Row(Sentinel, 2), Row(1, 3), Row(0, 4), Row(Sentinel, 5)>>

(* What a file of a given name holds unless the scenario says otherwise *)
DefaultData(fname) ==
    IF fname = MetadataName THEN Jsonl(GoodLines)
    ELSE IF fname \in {TrainName, LatentName} THEN Parquet(SomeRows)
    ELSE Bytes("notes")

(* A subdirectory with every known file in its place and a file to mirror  *)
FullSubdir(lines, train, latent) ==
    Subdir(Loc([NoEntries EXCEPT ![MetadataName] = FileEntry(Jsonl(lines)),
                                 ![TrainName] = FileEntry(train),
                                 ![NotesName] = FileEntry(Bytes("notes"))]),
           Loc([NoEntries EXCEPT ![LatentName] = FileEntry(latent),
                                 ![NotesName] = FileEntry(Bytes("readme"))]))

StartsWith(s, d, k) ==
    /\ src = s
    /\ subdirs = d
    /\ keep_ids = k
    /\ dst = EmptyTree
    /\ firstDst = EmptyTree
    /\ pc = "main"
    /\ idx = 0
    /\ handled = {}
    /\ err = ""
    /\ log = <<>>
    /\ run = 1

(* The whole tool, run twice: any list of subdirectories, of which "c" does *)
(* not exist under the source root.                                         *)
MainLayouts ==
    { FullSubdir(GoodLines, Parquet(SomeRows), Parquet(SomeRows)),
      FullSubdir(BadLines, Parquet(SomeRows), Parquet(SomeRows)),
      Subdir(AbsentLoc, Loc([NoEntries EXCEPT ![LatentName] = FileEntry(Parquet(SomeRows))])),
      Subdir(Loc(NoEntries), AbsentLoc) }

Init ==
    /\ keep_negative \in BOOLEAN
    /\ \E a \in MainLayouts, b \in MainLayouts,
          d \in SeqsUpTo(SubdirNames, MaxSubdirs) \ {<<>>},
          k \in {{0}, {0, Sentinel}} :
          StartsWith([n \in SubdirNames |-> IF n = "a" THEN a ELSE IF n = "b" THEN b ELSE AbsentSubdir],
                     d, k)

Spec == Init /\ [][Next]_vars

(* One subdirectory of any shape: every entry of generate and of inference  *)
(* absent, a regular file or a directory.                                   *)
AllLocs ==
    {AbsentLoc} \cup
    { Loc([n \in EntryNames |->
              IF t[n] = "file" THEN FileEntry(DefaultData(n))
              ELSE IF t[n] = "dir" THEN DirEntry ELSE AbsentEntry]) :
      t \in [EntryNames -> {"absent", "file", "dir"}] }

InitDir ==
    /\ keep_negative \in BOOLEAN
    /\ \E g \in AllLocs, i \in AllLocs :
          StartsWith([n \in SubdirNames |-> IF n = "a" THEN Subdir(g, i) ELSE AbsentSubdir],
                     <<"a">>, {0})

SpecDir == InitDir /\ [][Next]_vars

(* Any record file as generate/metadata.jsonl of the first subdirectory *)
AllLineKinds ==
    { BlankLine, GarbageLine, ArrayLine,
      ObjLine(MissingCid, 1, "canon"), ObjLine(NullCid, 1, "canon"),
      ObjLine(IntCid(Sentinel), 1, "canon"), ObjLine(IntCid(0), 1, "canon"),
      ObjLine(IntCid(0), 2, "spaced"), ObjLine(StrCid(0), 1, "canon"),
      ObjLine(IntCid(1), 1, "spaced") }

InitRecords ==
    /\ keep_negative = TRUE
    /\ \E F \in SeqsUpTo(AllLineKinds, MaxLines), k \in {{0}, {Sentinel, 1}} :
          StartsWith([n \in SubdirNames |->
                         IF n = "a" THEN FullSubdir(F, Parquet(SomeRows), Parquet(SomeRows))
                         ELSE IF n = "b" THEN FullSubdir(GoodLines, Parquet(SomeRows), Parquet(SomeRows))
                         ELSE AbsentSubdir],
                     <<"a", "b">>, k)

SpecRecords == InitRecords /\ [][Next]_vars

(* Any table as generate/train_data.parquet and as                          *)
(* inference/latent_eval_data.parquet, any keep-set the caller can pass     *)
AllRows == {Row(c, v) : c \in {Sentinel, 0, 1}, v \in {1, 2}}
AllTables == {Parquet(rows) : rows \in SeqsUpTo(AllRows, MaxRows)} \cup {ParquetNoColumn}

InitTable ==
    /\ keep_negative \in BOOLEAN
    /\ \E T \in AllTables, k \in (SUBSET {Sentinel, 0, 1}) \ {{}} :
          StartsWith([n \in SubdirNames |->
                         IF n = "a" THEN FullSubdir(GoodLines, T, T) ELSE AbsentSubdir],
                     <<"a">>, k)

SpecTable == InitTable /\ [][Next]_vars

(* ------------------------------------------------------------------ *)
(* Vocabulary of the properties                                         *)
(* ------------------------------------------------------------------ *)
LogIndexes == 1..Len(log)

(* This run has written fname of sub-location loc for list entry i *)
Wrote(i, loc, fname) ==
    \E p \in LogIndexes :
        /\ log[p].ev = "write"
        /\ log[p].idx = i
        /\ log[p].loc = loc
        /\ fname \in log[p].files

(* The concept id of a record line as the record contract reads it: the    *)
(* field as an integer, -1 when the record has no such field.              *)
ReadCid(line) ==
    CASE line.cid.k = "missing" -> Sentinel
      [] OTHER -> line.cid.v

SameRecord(l1, l2) == l1.t = "obj" /\ l2.t = "obj" /\ l1.cid = l2.cid /\ l1.extra = l2.extra

(* The records of a file that the keep-set selects, in file order *)
Selected(lines, K) == SelectSeq(lines, LAMBDA l : l.t = "obj" /\ ReadCid(l) \in K)

SameRecords(s1, s2) ==
    /\ Len(s1) = Len(s2)
    /\ \A j \in 1..Len(s1) : SameRecord(s1[j], s2[j])

IsPrefixOfRecords(s1, s2) ==
    /\ Len(s1) <= Len(s2)
    /\ \A j \in 1..Len(s1) : SameRecord(s1[j], s2[j])

SrcMeta == src["a"].generate.entries[MetadataName].data.lines
DstMeta == dst["a"].generate.entries[MetadataName].data.lines

(* ------------------------------------------------------------------ *)
(* C1: Record Filter.  Once generate/metadata.jsonl has been written:  *)
(* every record of the output has its concept_id in the keep-set and   *)
(* is a record of the source; and when the filter ran to the end, the  *)
(* output holds exactly the source's records whose concept_id (a       *)
(* missing field read as -1) is in the keep-set, once per occurrence   *)
(* and in order, blank lines contributing nothing.                     *)
(* ------------------------------------------------------------------ *)
C1_RecordFilter ==
    Wrote(1, "generate", MetadataName) =>
        /\ \A j \in 1..Len(DstMeta) :
              /\ DstMeta[j].t = "obj"
              /\ ReadCid(DstMeta[j]) \in keep_ids
              /\ \E i \in 1..Len(SrcMeta) : SameRecord(SrcMeta[i], DstMeta[j])
        /\ pc # "failed" => SameRecords(DstMeta, Selected(SrcMeta, keep_ids))

(* A file with a blank line and a record without concept_id, and a keep-set *)
(* holding -1: some records are kept and some are dropped.                  *)
C1_Witness ==
    /\ Wrote(1, "generate", MetadataName)
    /\ pc # "failed"
    /\ Sentinel \in keep_ids
    /\ \E i \in 1..Len(SrcMeta) : SrcMeta[i].t = "blank"
    /\ \E i \in 1..Len(SrcMeta) : SrcMeta[i].t = "obj" /\ SrcMeta[i].cid.k = "missing"
    /\ \E i \in 1..Len(SrcMeta) : SrcMeta[i].t = "obj" /\ ReadCid(SrcMeta[i]) \notin keep_ids
    /\ Len(DstMeta) = 1

(* ------------------------------------------------------------------ *)
(* C9: parse failure is fail-fast.  When a non-blank line of           *)
(* generate/metadata.jsonl does not parse as an object, the run ends   *)
(* in an error at that file: the output holds no record from that line *)
(* or a later one, and nothing else is written, processed or reported. *)
(* ------------------------------------------------------------------ *)
Unparsable(line) == line.t \in {"garbage", "array"}
HasUnparsable == \E i \in 1..Len(SrcMeta) : Unparsable(SrcMeta[i])
FirstUnparsable ==
    CHOOSE i \in 1..Len(SrcMeta) :
        Unparsable(SrcMeta[i]) /\ \A j \in 1..(i - 1) : ~Unparsable(SrcMeta[j])

C9_FailFast ==
    HasUnparsable =>
        /\ pc \in {"main", "loop", "gen_meta", "failed"}
        /\ pc # "loop" \/ idx = 1
        /\ pc = "failed" => err \in {"JSONDecodeError", "AttributeError", "TypeError"}
        /\ \A p \in LogIndexes : log[p] = WriteEvent(1, "a", "generate", {MetadataName})
        /\ ~dst["b"].exists
        /\ ~dst["a"].inference.exists
        /\ \A n \in EntryNames \ {MetadataName} : dst["a"].generate.entries[n].type = "absent"
        /\ dst["a"].generate.entries[MetadataName].type = "file" =>
              IsPrefixOfRecords(DstMeta,
                  Selected(SubSeq(SrcMeta, 1, FirstUnparsable - 1), keep_ids))

(* The run has failed on a bad line that follows a kept record and precedes *)
(* another record the keep-set selects.                                     *)
C9_Witness ==
    /\ HasUnparsable
    /\ pc = "failed"
    /\ Len(DstMeta) = 1
    /\ \E i \in (FirstUnparsable + 1)..Len(SrcMeta) :
          SrcMeta[i].t = "obj" /\ ReadCid(SrcMeta[i]) \in keep_ids

SrcTrain == src["a"].generate.entries[TrainName].data.rows
DstTrain == dst["a"].generate.entries[TrainName].data.rows
SrcLatent == src["a"].inference.entries[LatentName].data.rows
DstLatent == dst["a"].inference.entries[LatentName].data.rows

(* ------------------------------------------------------------------ *)
(* C2: Columnar Filter on generate/train_data.parquet.  Once the file  *)
(* has been written: with keep_negative the output is the source's     *)
(* rows whose concept_id is in the keep-set or is -1, in source order; *)
(* without keep_negative (--drop-negative) the output has no row with  *)
(* concept_id = -1.                                                    *)
(* ------------------------------------------------------------------ *)
C2_TrainingTable ==
    Wrote(1, "generate", TrainName) =>
        /\ keep_negative =>
              DstTrain = SelectSeq(SrcTrain,
                             LAMBDA r : r.concept_id \in keep_ids \/ r.concept_id = Sentinel)
        /\ ~keep_negative =>
              \A j \in 1..Len(DstTrain) : DstTrain[j].concept_id # Sentinel

(* ------------------------------------------------------------------ *)
(* C3: whatever --drop-negative and --concept-ids are, the written     *)
(* inference/latent_eval_data.parquet has no row with concept_id = -1. *)
(* ------------------------------------------------------------------ *)
C3_LatentNoSentinel ==
    Wrote(1, "inference", LatentName) =>
        \A j \in 1..Len(DstLatent) : DstLatent[j].concept_id # Sentinel

KnownNames == {MetadataName, TrainName, LatentName}

(* The filenames subset_single_directory filters in a sub-location *)
FilteredIn(loc) == IF loc = "generate" THEN {MetadataName, TrainName} ELSE {LatentName}

(* The list entries of a run that ended successfully *)
Processed == {subdirs[i] : i \in 1..Len(subdirs)}

(* ------------------------------------------------------------------ *)
(* C4: mirroring.  After a successful run, every regular file of a     *)
(* sub-location of a processed subdirectory whose name is none of the  *)
(* three known names is at the same path under the destination with    *)
(* the same content.                                                   *)
(* ------------------------------------------------------------------ *)
C4_Mirroring ==
    pc = "done" =>
        \A name \in Processed, loc \in LocNames, n \in EntryNames \ KnownNames :
            (src[name][loc].exists /\ src[name][loc].entries[n].type = "file") =>
                dst[name][loc].entries[n] = src[name][loc].entries[n]

(* A finished run over a generate directory holding both filtered files and *)
(* notes.txt, which is at the destination.                                  *)
C4_Witness ==
    /\ pc = "done"
    /\ run = 1
    /\ src["a"].generate.entries[MetadataName].type = "file"
    /\ src["a"].generate.entries[TrainName].type = "file"
    /\ src["a"].generate.entries[NotesName].type = "file"
    /\ src["a"].inference.entries[NotesName].type = "file"
    /\ dst["a"].generate.entries[NotesName] = FileEntry(Bytes("notes"))
    /\ dst["a"].inference.entries[NotesName] = FileEntry(Bytes("notes"))

(* ------------------------------------------------------------------ *)
(* C8: destination directory shape.  After a subdirectory has been     *)
(* processed into an empty destination, the destination sub-location   *)
(* exists iff the source sub-location exists and holds one of its      *)
(* filtered files or some other regular file; directories inside a     *)
(* sub-location are never created at the destination.                  *)
(* ------------------------------------------------------------------ *)
C8_DirectoryShape ==
    /\ (pc = "done" /\ run = 1) =>
          \A name \in Processed, loc \in LocNames :
              dst[name][loc].exists <=>
                  /\ src[name][loc].exists
                  /\ \/ \E n \in FilteredIn(loc) : src[name][loc].entries[n].type # "absent"
                     \/ \E n \in EntryNames \ FilteredIn(loc) :
                            src[name][loc].entries[n].type = "file"
    /\ \A name \in SubdirNames, loc \in LocNames, n \in EntryNames :
          dst[name][loc].entries[n].type # "dir"

(* generate exists and holds only directories, inference is absent: the    *)
(* run succeeds and creates neither destination directory.                 *)
C8_Witness ==
    /\ pc = "done"
    /\ run = 1
    /\ src["a"].generate.exists
    /\ src["a"].generate.entries[NotesName].type = "dir"
    /\ src["a"].generate.entries[LatentName].type = "dir"
    /\ ~src["a"].inference.exists
    /\ ~dst["a"].generate.exists
    /\ ~dst["a"].inference.exists

(* ------------------------------------------------------------------ *)
(* C10: a known filename is filtered only in its own sub-location.     *)
(* After a successful run a regular file latent_eval_data.parquet of   *)
(* generate, or metadata.jsonl or train_data.parquet of inference, is  *)
(* at the destination with the source's content; and at any time a     *)
(* destination file other than generate/metadata.jsonl,                *)
(* generate/train_data.parquet and inference/latent_eval_data.parquet  *)
(* has the content of its source.                                      *)
(* ------------------------------------------------------------------ *)
C10_FilteredOnlyInPlace ==
    /\ pc = "done" =>
          \A name \in Processed, loc \in LocNames : \A n \in KnownNames \ FilteredIn(loc) :
              (src[name][loc].exists /\ src[name][loc].entries[n].type = "file") =>
                  dst[name][loc].entries[n] = src[name][loc].entries[n]
    /\ \A name \in SubdirNames, loc \in LocNames : \A n \in EntryNames \ FilteredIn(loc) :
          dst[name][loc].entries[n].type = "file" =>
              dst[name][loc].entries[n] = src[name][loc].entries[n]

(* All three known names misplaced, next to the filtered files: the        *)
(* misplaced tables keep the rows the keep-set does not select.            *)
C10_Witness ==
    /\ pc = "done"
    /\ src["a"].generate.entries[TrainName].type = "file"
    /\ src["a"].inference.entries[LatentName].type = "file"
    /\ dst["a"].generate.entries[LatentName] = FileEntry(Parquet(SomeRows))
    /\ dst["a"].inference.entries[TrainName] = FileEntry(Parquet(SomeRows))
    /\ dst["a"].inference.entries[MetadataName] = FileEntry(Jsonl(GoodLines))
    /\ dst["a"].generate.entries[TrainName] # src["a"].generate.entries[TrainName]
    /\ dst["a"].inference.entries[LatentName] # src["a"].inference.entries[LatentName]

(* ------------------------------------------------------------------ *)
(* C5: missing subdirectory.  When a name of --subdirs has no          *)
(* directory under the source root, the run cannot end successfully    *)
(* and never gets past the first such entry: reaching it ends the run  *)
(* with the source-not-found error, nothing is written under           *)
(* target_root/name, no entry at or after it is processed or reported, *)
(* and what earlier entries wrote is still on disk.                    *)
(* ------------------------------------------------------------------ *)
Missing(i) == ~src[subdirs[i]].exists
HasMissing == \E i \in 1..Len(subdirs) : Missing(i)
FirstMissing ==
    CHOOSE i \in 1..Len(subdirs) : Missing(i) /\ \A j \in 1..(i - 1) : ~Missing(j)

C5_MissingSubdir ==
    HasMissing =>
        /\ pc # "done"
        /\ idx <= FirstMissing
        /\ idx = FirstMissing => pc \in {"loop", "failed"}
        /\ (idx = FirstMissing /\ pc = "failed") => err = "FileNotFoundError"
        /\ \A p \in LogIndexes : log[p].idx < FirstMissing
        /\ \A i \in 1..Len(subdirs) : Missing(i) => dst[subdirs[i]] = AbsentSubdir
        /\ \A p \in LogIndexes : \A n \in log[p].files :
              dst[log[p].sub][log[p].loc].entries[n].type = "file"

(* The run has stopped at a missing second entry, after the first entry    *)
(* was written and reported.                                               *)
C5_Witness ==
    /\ HasMissing
    /\ FirstMissing = 2
    /\ pc = "failed"
    /\ err = "FileNotFoundError"
    /\ run = 1
    /\ Len(log) >= 2
    /\ log[Len(log)] = PrintEvent(1, subdirs[1])
    /\ dst[subdirs[1]].generate.entries[MetadataName].type = "file"
    /\ dst[subdirs[2]] = AbsentSubdir

(* ------------------------------------------------------------------ *)
(* C6: idempotence.  When the tool is run again with the same          *)
(* arguments on the unchanged source, its run ends with the            *)
(* destination tree exactly as the first run left it.                  *)
(* ------------------------------------------------------------------ *)
C6_Idempotent ==
    (run >= 2 /\ pc \in {"done", "failed"}) => dst = firstDst

(* A second successful run that rewrote a non-empty metadata file and      *)
(* copied a file.                                                          *)
C6_Witness ==
    /\ run = 2
    /\ pc = "done"
    /\ Wrote(1, "generate", MetadataName)
    /\ Wrote(1, "generate", NotesName)
    /\ Len(dst[subdirs[1]].generate.entries[MetadataName].data.lines) >= 1
    /\ dst = firstDst

(* ------------------------------------------------------------------ *)
(* C7: order.  The writes and reports of a run come in list order:     *)
(* everything for entry i precedes everything for entry i+1, the       *)
(* report of an entry is its last event and is made when all its files *)
(* are at the destination, it names the entry, and a successful run    *)
(* has made exactly one report per list entry, in list order.          *)
(* ------------------------------------------------------------------ *)
Reports == SelectSeq(log, LAMBDA e : e.ev = "print")

C7_InOrder ==
    /\ \A p \in LogIndexes, q \in LogIndexes :
          p < q => /\ log[p].idx <= log[q].idx
                   /\ log[p].ev = "print" => log[p].idx < log[q].idx
    /\ \A p \in LogIndexes :
          /\ log[p].idx \in 1..Len(subdirs)
          /\ log[p].sub = subdirs[log[p].idx]
          /\ log[p].ev = "print" =>
                \A loc \in LocNames, n \in EntryNames :
                    (src[log[p].sub][loc].exists /\ src[log[p].sub][loc].entries[n].type = "file")
                        => dst[log[p].sub][loc].entries[n].type = "file"
    /\ pc = "done" =>
          /\ Len(Reports) = Len(subdirs)
          /\ \A i \in 1..Len(subdirs) : Reports[i] = PrintEvent(i, subdirs[i])

(* A successful first run over two entries, each with writes before its    *)
(* report.                                                                 *)
C7_Witness ==
    /\ pc = "done"
    /\ run = 1
    /\ Len(subdirs) = 2
    /\ subdirs[1] # subdirs[2]
    /\ Len(Reports) = 2
    /\ \E p \in LogIndexes : log[p].ev = "write" /\ log[p].idx = 1
    /\ \E p \in LogIndexes : log[p].ev = "write" /\ log[p].idx = 2

====
